---- MODULE Spec2Model ----
(***************************************************************************)
(* A model of the green-index service of src/carbon_passbook.py: the       *)
(* score model (compute_scores), the tier table (grade_from_gi), the       *)
(* monthly aggregator (aggregate_monthly), the rolling reporter            *)
(* (rolling_12m), the CSV import handler (api_upload_csv) over the JSON    *)
(* record store, the sanitizer (_nz) and the page's quick-suggestion       *)
(* buttons, target back-solver and undo/redo stacks (updateUI, backsolve,  *)
(* pushUndo).                                                              *)
(*                                                                         *)
(* Numbers.  Python floats are modelled as exact rationals <<n, d>> with   *)
(* d > 0, kept in lowest terms.  A raw input that is not a finite number   *)
(* is a pair <<code, 0>>.  The one place where binary rounding decides a   *)
(* result of the code, the weighted sum of line 84, carries a rounding     *)
(* error of unknown sign: a float is a record [q, e], the exact value q    *)
(* moved by e times an arbitrarily small amount, e \in {-1, 0, 1}.         *)
(* Values the code rounds to k decimals are integers in units of 10^-k.    *)
(***************************************************************************)
EXTENDS Integers, Sequences, FiniteSets, TLC

VARIABLES
    req,        \* compute: the request {total, s1, s2, s3, caps, weights}
    fperr,      \* compute: sign of the rounding error of line 84
    loc,        \* compute: the local variables of compute_scores
    res,        \* compute: the ScoreResult returned, or NoRes
    giA, giB,   \* tier table: two scores looked up
    tierA, tierB,   \* tier table: the tiers returned for them
    series,     \* rolling: the monthly series passed to rolling_12m
    win,        \* rolling: the deque of the GI values in the window
    sum_gi,     \* rolling: the running sum, in hundredths
    out,        \* rolling: the points produced so far
    receipts,   \* aggregator: the records passed to aggregate_monthly
    agg,        \* aggregator: the monthly series returned
    store,      \* import: the records in receipts.json
    fileValid,  \* import: receipts.json exists and holds a complete JSON list
    store0,     \* import: the records in receipts.json before the imports
    procs,      \* import: the upload requests being served
    proc,       \* import: each request's position and local variables
    san,        \* sanitizer: the argument of _nz and the value returned
    quick,      \* page: the quick-suggestion button last clicked, its target
    bs,         \* page: the local variables of backsolve and its hint text
    fields,     \* page: the values of the inputs total, s1, s2, s3
    undoStack,  \* page: the inputs saved by pushUndo, oldest first
    redoStack,  \* page: the inputs saved by undo, oldest first
    trail,      \* page: the last two stack actions and what they started from
    pc          \* position of the operation under study

computeVars == <<req, fperr, loc, res>>
tierVars == <<giA, giB, tierA, tierB>>
rollVars == <<series, win, sum_gi, out>>
aggVars == <<receipts, agg>>
importVars == <<store, fileValid, store0, procs, proc>>
sanVars == <<san>>
stackVars == <<fields, undoStack, redoStack, trail>>
uiVars == <<quick, bs, stackVars>>
vars == <<computeVars, tierVars, rollVars, aggVars, importVars, sanVars, uiVars,
          pc>>

----------------------------------------------------------------------------
(* Bounds of the model *)

MaxAmtK == 3          \* amounts range over -AmtStep, 0, AmtStep .. MaxAmtK*AmtStep
AmtStep == 800
MaxGiK == 40          \* scores looked up range over 0, 2.5 .. MaxGiK*2.5
MaxMonths == 14       \* longest monthly series
MaxSeed == 4          \* monthly series differ by where they start in GiVals
MaxStride == 2        \* and by how far they move in it per month
MaxRecs == 3          \* longest record list passed to aggregate_monthly
MaxRows == 2          \* most data rows in an uploaded CSV
MaxClicks == 2        \* quick-suggestion buttons clicked in a row
MaxSteps == 4         \* stack actions of the page after its first pushes
MaxRawK == 30         \* arguments of _nz range over -MaxRawK/4 .. MaxRawK/4

----------------------------------------------------------------------------
(* Rational arithmetic *)

Abs(x) == IF x < 0 THEN -x ELSE x

RECURSIVE GCD(_, _)
GCD(a, b) == IF b = 0 THEN a ELSE GCD(b, a % b)

RNorm(n, d) == LET g == GCD(Abs(n), d) IN <<n \div g, d \div g>>

R(n) == <<n, 1>>
Rat(n, d) == IF d < 0 THEN RNorm(-n, -d) ELSE RNorm(n, d)

RAdd(a, b) ==
    LET l == (a[2] \div GCD(a[2], b[2])) * b[2]
    IN  RNorm(a[1] * (l \div a[2]) + b[1] * (l \div b[2]), l)

RNeg(a) == <<-a[1], a[2]>>
RSub(a, b) == RAdd(a, RNeg(b))

RMul(a, b) ==
    LET g1 == GCD(Abs(a[1]), b[2])
        g2 == GCD(Abs(b[1]), a[2])
    IN  RNorm((a[1] \div g1) * (b[1] \div g2), (a[2] \div g2) * (b[2] \div g1))

RInv(a) == IF a[1] < 0 THEN <<-a[2], -a[1]>> ELSE <<a[2], a[1]>>
RDiv(a, b) == RMul(a, RInv(b))

RLt(a, b) == a[1] * b[2] < b[1] * a[2]
RLe(a, b) == a[1] * b[2] <= b[1] * a[2]
\* Python's min(a, b) and max(a, b): the first argument unless the second is
\* strictly smaller (greater)
RMin(a, b) == IF RLt(b, a) THEN b ELSE a
RMax(a, b) == IF RLt(a, b) THEN b ELSE a

Pow10(k) == CASE k = 0 -> 1 [] k = 1 -> 10 [] k = 2 -> 100 [] k = 4 -> 10000

\* round(x, k) of a float q + e*epsilon, in units of 10^-k: to nearest; an
\* exact tie goes where the rounding error points, and to even when e = 0
RoundFl(q, e, k) ==
    LET d    == q[2]
        ip   == q[1] \div d
        rem  == q[1] % d
        sc   == rem * Pow10(k)
        lo   == ip * Pow10(k) + (sc \div d)
        twice == 2 * (sc % d)
    IN  IF twice < d THEN lo
        ELSE IF twice > d THEN lo + 1
        ELSE IF e > 0 THEN lo + 1
        ELSE IF e < 0 THEN lo
        ELSE IF lo % 2 = 0 THEN lo ELSE lo + 1

Round(q, k) == RoundFl(q, 0, k)

----------------------------------------------------------------------------
(* Domain: sanitizer, tier table, next threshold *)

R0 == R(0)
R100 == R(100)

\* raw inputs that float() rejects or that are not finite: <<code, 0>>
NotNumeric == <<0, 0>>
NaN == <<1, 0>>
PosInf == <<2, 0>>
NegInf == <<-2, 0>>

\* _nz without the isfinite test
nz_NoFinite(x) == IF x = NotNumeric THEN R0 ELSE RMax(x, R0)

\* _nz: float(x) failing, a non-finite or a negative value give 0.0
nz(x) ==
    IF x[2] = 0 THEN R0
    ELSE RMax(x, R0)

\* LEVELS: (lower bound, tier name), highest first.  The names stand for
\* the source's: Diamond, Platinum, Gold, Silver, Bronze, Bronze.
LEVELS == <<
    <<80, "Diamond">>, <<60, "Platinum">>, <<40, "Gold">>,
    <<20, "Silver">>, <<10, "Bronze">>, <<0, "Bronze">> >>

\* a float g = [q, e] compared with an exact number t
FlLt(g, t) == RLt(g.q, t) \/ (g.q = t /\ g.e < 0)
FlGt(g, t) == RLt(t, g.q) \/ (g.q = t /\ g.e > 0)
FlGe(g, t) == ~FlLt(g, t)
Exact(q) == [q |-> q, e |-> 0]

Tier(level, cashback, loan_cut, extra_rights) ==
    [level |-> level, cashback |-> cashback, loan_cut |-> loan_cut,
     extra_rights |-> extra_rights]

\* grade_from_gi with the Platinum test written gi > 60
grade_from_gi_Strict60(gi) ==
    IF FlGe(gi, R(80)) THEN
        Tier("Diamond", "0.5%", "-0.5%", "ESG fund fee waived, priority green loan review")
    ELSE IF FlGt(gi, R(60)) THEN
        Tier("Platinum", "0.3%", "-0.3%", "ESG fund fee 50% off")
    ELSE IF FlGe(gi, R(40)) THEN
        Tier("Gold", "0.2%", "-0.2%", "green product discount code")
    ELSE IF FlGe(gi, R(20)) THEN
        Tier("Silver", "0.1%", "-0.1%", "monthly carbon footprint report")
    ELSE IF FlGe(gi, R(10)) THEN
        Tier("Bronze", "0%", "0%", "monthly carbon footprint report")
    ELSE
        Tier("Bronze", "0%", "0%", "basic carbon footprint query")

\* grade_from_gi without the band that starts at 10
grade_from_gi_NoBand10(gi) ==
    IF FlGe(gi, R(80)) THEN
        Tier("Diamond", "0.5%", "-0.5%", "ESG fund fee waived, priority green loan review")
    ELSE IF FlGe(gi, R(60)) THEN
        Tier("Platinum", "0.3%", "-0.3%", "ESG fund fee 50% off")
    ELSE IF FlGe(gi, R(40)) THEN
        Tier("Gold", "0.2%", "-0.2%", "green product discount code")
    ELSE IF FlGe(gi, R(20)) THEN
        Tier("Silver", "0.1%", "-0.1%", "monthly carbon footprint report")
    ELSE
        Tier("Bronze", "0%", "0%", "basic carbon footprint query")

grade_from_gi(gi) ==
    IF FlGe(gi, R(80)) THEN
        Tier("Diamond", "0.5%", "-0.5%", "ESG fund fee waived, priority green loan review")
    ELSE IF FlGe(gi, R(60)) THEN
        Tier("Platinum", "0.3%", "-0.3%", "ESG fund fee 50% off")
    ELSE IF FlGe(gi, R(40)) THEN
        Tier("Gold", "0.2%", "-0.2%", "green product discount code")
    ELSE IF FlGe(gi, R(20)) THEN
        Tier("Silver", "0.1%", "-0.1%", "monthly carbon footprint report")
    ELSE IF FlGe(gi, R(10)) THEN
        Tier("Bronze", "0%", "0%", "monthly carbon footprint report")
    ELSE
        Tier("Bronze", "0%", "0%", "basic carbon footprint query")

thresholds == <<0, 10, 20, 40, 60, 80, 100>>

\* _next_threshold: the first threshold gi is below; delta is round(t - gi, 2)
next_threshold(gi) ==
    LET below == {i \in 1..Len(thresholds) : FlLt(gi, R(thresholds[i]))}
    IN  IF below = {} THEN [target |-> 100, delta |-> 0]
        ELSE LET i == CHOOSE j \in below : \A k \in below : j <= k
                 t == thresholds[i]
             IN  [target |-> t,
                  delta |-> RoundFl(RMax(RSub(R(t), gi.q), R0), -gi.e, 2)]

----------------------------------------------------------------------------
(* Score model *)

DefaultCaps == [S1 |-> R(40), S2 |-> R(70), S3 |-> R(80)]
DefaultWeights == [S1 |-> Rat(35, 100), S2 |-> Rat(45, 100), S3 |-> Rat(20, 100)]
NoConfig == [S1 |-> NotNumeric, S2 |-> NotNumeric, S3 |-> NotNumeric]

\* the amount at which a category's raw score reaches 100
Div1 == 4000
Div2 == 7000
Div3 == 8000

NoSuggestion == -1

\* ClampGI with the upper bound forgotten: gi = max(0.0, gi)
ClampGI_NoMin(g) == IF FlGt(g, R0) THEN g ELSE Exact(R0)

\* line 85: gi = max(0.0, min(gi, 100.0))
ClampGI(g) ==
    LET m == IF FlGt(g, R100) THEN Exact(R100) ELSE g
    IN  IF FlGt(m, R0) THEN m ELSE Exact(R0)

\* NormWeights that falls back to equal weights when the sum is 0
NormWeights_EqualFallback(weights) ==
    LET a == nz(weights.S1)
        b == nz(weights.S2)
        c == nz(weights.S3)
        sum == RAdd(RAdd(a, b), c)
    IN  IF sum = R0 THEN [S1 |-> Rat(1, 3), S2 |-> Rat(1, 3), S3 |-> Rat(1, 3)]
        ELSE [S1 |-> RDiv(a, sum), S2 |-> RDiv(b, sum), S3 |-> RDiv(c, sum)]

\* lines 63-64: weights sanitized and divided by their sum (by 1.0 when it is 0)
NormWeights(weights) ==
    LET a == nz(weights.S1)
        b == nz(weights.S2)
        c == nz(weights.S3)
        sum == RAdd(RAdd(a, b), c)
        ws == IF sum = R0 THEN R(1) ELSE sum
    IN  [S1 |-> RDiv(a, ws), S2 |-> RDiv(b, ws), S3 |-> RDiv(c, ws)]

\* Amounts without the auto-correction of lines 69-70
Amounts_NoRaise(total, s1, s2, s3) ==
    LET t == nz(total)
        a == nz(s1)
        b == nz(s2)
        c == nz(s3)
        spent == RAdd(RAdd(a, b), c)
        other == RMax(RSub(t, spent), R0)
    IN  [total |-> t, s1 |-> a, s2 |-> b, s3 |-> c, spent |-> spent,
         other |-> other,
         denom |-> IF RLt(R0, t) THEN t
                   ELSE IF RLt(R0, spent) THEN spent ELSE R(1)]

\* lines 66-72: sanitized amounts, total raised to the category sum
Amounts(total, s1, s2, s3) ==
    LET t == nz(total)
        a == nz(s1)
        b == nz(s2)
        c == nz(s3)
        spent == RAdd(RAdd(a, b), c)
        tot == IF RLt(t, spent) THEN spent ELSE t
        other == RMax(RSub(tot, spent), R0)
    IN  [total |-> tot, s1 |-> a, s2 |-> b, s3 |-> c, spent |-> spent,
         other |-> other,
         denom |-> IF RLt(R0, tot) THEN tot
                   ELSE IF RLt(R0, spent) THEN spent ELSE R(1)]

\* lines 75-77: amount -> raw score, capped
RawScore(s, div, cap) == RMin(RMul(R100, RDiv(s, R(div))), cap)

\* NormScore with the division by the cap forgotten
NormScore_Raw(score, cap) == score

\* lines 80-82: raw score on a 0-100 scale of its cap
NormScore(score, cap) ==
    IF cap = R0 THEN R0 ELSE RMul(RDiv(score, cap), R100)

\* Slope without the test of the cap
Slope_NoCapTest(w, score, div, cap) ==
    RMul(RMul(w, RDiv(R100, IF cap = R0 THEN R(1) ELSE cap)),
         RDiv(R100, R(div)))

\* lines 93-97: GI gained per unit of money, 0 once the category is capped
Slope(w, score, div, cap) ==
    IF RLt(score, cap)
    THEN RMul(RMul(w, RDiv(R100, IF cap = R0 THEN R(1) ELSE cap)),
              RDiv(R100, R(div)))
    ELSE R0

\* lines 100-105
Suggestion(delta, m) ==
    IF RLt(R0, m)
    THEN Round(RMax(RDiv(Rat(delta, 100), m), R0), 0)
    ELSE NoSuggestion

\* the local variables of compute_scores after line 98
compute_locals(total, s1, s2, s3, capsIn, weightsIn, err) ==
    LET caps == IF capsIn = NoConfig THEN DefaultCaps ELSE capsIn
        weights == IF weightsIn = NoConfig THEN DefaultWeights ELSE weightsIn
        w == NormWeights(weights)
        a == Amounts(total, s1, s2, s3)
        s1_score == RawScore(a.s1, Div1, caps.S1)
        s2_score == RawScore(a.s2, Div2, caps.S2)
        s3_score == RawScore(a.s3, Div3, caps.S3)
        s1_norm == NormScore(s1_score, caps.S1)
        s2_norm == NormScore(s2_score, caps.S2)
        s3_norm == NormScore(s3_score, caps.S3)
        sum == RAdd(RAdd(RMul(w.S1, s1_norm), RMul(w.S2, s2_norm)),
                    RMul(w.S3, s3_norm))
        gi == ClampGI([q |-> sum, e |-> err])
    IN  [caps |-> caps, w |-> w, a |-> a,
         score |-> [S1 |-> s1_score, S2 |-> s2_score, S3 |-> s3_score],
         norm |-> [S1 |-> s1_norm, S2 |-> s2_norm, S3 |-> s3_norm],
         sum |-> sum, gi |-> gi,
         tier |-> grade_from_gi(gi),
         slopes |-> [S1 |-> Slope(w.S1, s1_score, Div1, caps.S1),
                     S2 |-> Slope(w.S2, s2_score, Div2, caps.S2),
                     S3 |-> Slope(w.S3, s3_score, Div3, caps.S3)],
         nxt |-> next_threshold(gi)]

\* lines 99-124: the dictionary returned, built from the locals
ScoreResult(l) ==
    LET a == l.a
        values == <<Round(a.s1, 2), Round(a.s2, 2), Round(a.s3, 2), Round(a.other, 2)>>
    IN  [inputs |-> [total |-> a.total, s1 |-> a.s1, s2 |-> a.s2, s3 |-> a.s3],
         values |-> values,
         percents |-> [i \in 1..4 |->
                          Round(RMul(RDiv(Rat(values[i], 100), a.denom), R100), 1)],
         spent |-> Round(a.spent, 2),
         other |-> Round(a.other, 2),
         s_scores |-> [k \in {"S1", "S2", "S3"} |-> Round(l.score[k], 2)],
         s_norms |-> [k \in {"S1", "S2", "S3"} |-> Round(l.norm[k], 2)],
         gi |-> RoundFl(l.gi.q, l.gi.e, 2),
         level |-> l.tier.level,
         reward |-> <<l.tier.cashback, l.tier.loan_cut>>,
         extra_rights |-> l.tier.extra_rights,
         next_target |-> l.nxt,
         suggestions |->
             [k \in {"S1", "S2", "S3"} |-> Suggestion(l.nxt.delta, l.slopes[k])],
         caps |-> l.caps,
         weights |-> [k \in {"S1", "S2", "S3"} |-> Round(l.w[k], 4)]]

compute_scores(total, s1, s2, s3, capsIn, weightsIn, err) ==
    ScoreResult(compute_locals(total, s1, s2, s3, capsIn, weightsIn, err))

----------------------------------------------------------------------------
(* POST /api/compute *)

NoRes == [none |-> TRUE]

\* the variables of a component that is not running
ComputeIdle == req = NoRes /\ fperr = 0 /\ loc = NoRes /\ res = NoRes
TierIdle == giA = NoRes /\ giB = NoRes /\ tierA = NoRes /\ tierB = NoRes
RollIdle == series = <<>> /\ win = <<>> /\ sum_gi = 0 /\ out = <<>>
AggIdle == receipts = <<>> /\ agg = <<>>
ImportIdle ==
    /\ store = <<>> /\ fileValid = FALSE /\ store0 = <<>>
    /\ procs = {} /\ proc = <<>>
SanIdle == san = NoRes
StackIdle ==
    fields = NoRes /\ undoStack = <<>> /\ redoStack = <<>> /\ trail = NoRes
UiIdle == quick = NoRes /\ bs = NoRes /\ StackIdle

AmountInputs == {R(k * AmtStep) : k \in -1..MaxAmtK}

CapsInputs ==
    {NoConfig,
     [S1 |-> R(10), S2 |-> R(20), S3 |-> R(30)],
     [S1 |-> R(0), S2 |-> R(20), S3 |-> R(30)]}

WeightsInputs ==
    {NoConfig,
     [S1 |-> R0, S2 |-> Rat(5, 100), S3 |-> Rat(25, 100)],
     [S1 |-> R(1), S2 |-> R(1), S3 |-> R(1)],
     [S1 |-> R(-1), S2 |-> Rat(1, 2), S3 |-> Rat(1, 2)],
     [S1 |-> R0, S2 |-> R0, S3 |-> R0]}

Request(total, s1, s2, s3, caps, weights) ==
    [total |-> total, s1 |-> s1, s2 |-> s2, s3 |-> s3, caps |-> caps,
     weights |-> weights]

\* the request of the form's initial values (the Reset button's, line 815)
Example1 == Request(R(5000), R(1000), R(2000), R(500), NoConfig, NoConfig)

\* a request whose GI, 79.997..., lies within 0.005 below a threshold
NearDiamond == Request(R(6501), R(1600), R(4899), R(2), NoConfig, NoConfig)

ComputeRequests ==
    {Request(t, a, b, c, cp, w) :
        t \in AmountInputs, a \in AmountInputs, b \in AmountInputs,
        c \in AmountInputs, cp \in CapsInputs, w \in WeightsInputs}
    \cup {Example1, NearDiamond}

InitCompute ==
    /\ req \in ComputeRequests
    /\ fperr \in {-1, 0, 1}
    /\ loc = NoRes
    /\ res = NoRes
    /\ pc = "request"
    /\ TierIdle /\ RollIdle /\ AggIdle /\ ImportIdle /\ SanIdle /\ UiIdle

api_compute ==
    /\ pc = "request"
    /\ loc' = compute_locals(req.total, req.s1, req.s2, req.s3, req.caps,
                              req.weights, fperr)
    /\ res' = compute_scores(req.total, req.s1, req.s2, req.s3, req.caps,
                             req.weights, fperr)
    /\ pc' = "responded"
    /\ UNCHANGED <<req, fperr, tierVars, rollVars, aggVars, importVars, sanVars, uiVars>>

NextCompute == api_compute

SpecCompute == InitCompute /\ [][NextCompute]_vars

----------------------------------------------------------------------------
(* Tier lookup *)

FlLe(a, b) == RLt(a.q, b.q) \/ (a.q = b.q /\ a.e <= b.e)

\* floats on a grid of 2.5, and the floats next to each on either side
GiInputs == {[q |-> Rat(5 * k, 2), e |-> e] : k \in 0..MaxGiK, e \in {-1, 0, 1}}

InitTier ==
    /\ giA \in GiInputs
    /\ giB \in GiInputs
    /\ tierA = NoRes
    /\ tierB = NoRes
    /\ pc = "lookup"
    /\ ComputeIdle /\ RollIdle /\ AggIdle /\ ImportIdle /\ SanIdle /\ UiIdle

tierFor ==
    /\ pc = "lookup"
    /\ tierA' = grade_from_gi(giA)
    /\ tierB' = grade_from_gi(giB)
    /\ pc' = "looked up"
    /\ UNCHANGED <<giA, giB, computeVars, rollVars, aggVars, importVars, sanVars, uiVars>>

NextTier == tierFor

SpecTier == InitTier /\ [][NextTier]_vars

----------------------------------------------------------------------------
(* Rolling reporter *)

Window == 12

\* rolling_12m with the eviction test written len(win) >= 12
roll_body_EvictEarly(w, s, o, row) ==
    LET gi == row.gi
        w1 == Append(w, gi)
        s1 == s + gi
        evict == Len(w1) >= Window
        w2 == IF evict THEN Tail(w1) ELSE w1
        s2 == IF evict THEN s1 - Head(w1) ELSE s1
        avg == Rat(s2, 100 * Len(w2))
    IN  [win |-> w2, sum_gi |-> s2,
         out |-> Append(o, [month |-> row.month, gi12m |-> Round(avg, 2),
                            level12m |-> grade_from_gi(Exact(avg)).level])]

\* rolling_12m with the evicted value left in the running sum
roll_body_StaleSum(w, s, o, row) ==
    LET gi == row.gi
        w1 == Append(w, gi)
        s1 == s + gi
        evict == Len(w1) > Window
        w2 == IF evict THEN Tail(w1) ELSE w1
        avg == Rat(s1, 100 * Len(w2))
    IN  [win |-> w2, sum_gi |-> s1,
         out |-> Append(o, [month |-> row.month, gi12m |-> Round(avg, 2),
                            level12m |-> grade_from_gi(Exact(avg)).level])]

\* lines 179-185: one iteration of the loop of rolling_12m on `row`, from the
\* deque w, the running sum s (hundredths) and the output o
roll_body(w, s, o, row) ==
    LET gi == row.gi
        w1 == Append(w, gi)
        s1 == s + gi
        evict == Len(w1) > Window
        w2 == IF evict THEN Tail(w1) ELSE w1
        s2 == IF evict THEN s1 - Head(w1) ELSE s1
        avg == Rat(s2, 100 * Len(w2))
    IN  [win |-> w2, sum_gi |-> s2,
         out |-> Append(o, [month |-> row.month, gi12m |-> Round(avg, 2),
                            level12m |-> grade_from_gi(Exact(avg)).level])]

\* the loop of lines 178-185 from row i on, st holding win, sum_gi and out
\* (the singleton sets make TLC evaluate each iteration once)
RECURSIVE roll_from(_, _, _)
roll_from(rows, i, st) ==
    IF i > Len(rows) THEN st.out
    ELSE CHOOSE o \in {roll_from(rows, i + 1, x) :
                          x \in {roll_body(st.win, st.sum_gi, st.out, rows[i])}} : TRUE

rolling_12m(rows) ==
    roll_from(rows, 1, [win |-> <<>>, sum_gi |-> 0, out |-> <<>>])

\* monthly GI values (hundredths) the series are drawn from
GiVals == <<0, 1250, 4180, 7999, 10000>>

\* a series of n consecutive months (numbered year*12 + month)
SeriesFor(n, seed, stride) ==
    [i \in 1..n |->
        [month |-> 24300 + seed + i,
         gi |-> GiVals[((seed + stride * i) % Len(GiVals)) + 1]]]

SeriesInputs ==
    {SeriesFor(n, seed, stride) :
        n \in 0..MaxMonths, seed \in 0..MaxSeed, stride \in 1..MaxStride}

InitRolling ==
    /\ series \in SeriesInputs
    /\ win = <<>>
    /\ sum_gi = 0
    /\ out = <<>>
    /\ pc = "loop"
    /\ ComputeIdle /\ TierIdle /\ AggIdle /\ ImportIdle /\ SanIdle /\ UiIdle

RollStep ==
    /\ pc = "loop"
    /\ Len(out) < Len(series)
    /\ LET st == roll_body(win, sum_gi, out, series[Len(out) + 1])
       IN  /\ win' = st.win
           /\ sum_gi' = st.sum_gi
           /\ out' = st.out
    /\ UNCHANGED <<series, pc, computeVars, tierVars, aggVars, importVars, sanVars, uiVars>>

RollReturn ==
    /\ pc = "loop"
    /\ Len(out) = Len(series)
    /\ pc' = "done"
    /\ UNCHANGED <<rollVars, computeVars, tierVars, aggVars, importVars, sanVars, uiVars>>

NextRolling == RollStep \/ RollReturn

SpecRolling == InitRolling /\ [][NextRolling]_vars

----------------------------------------------------------------------------
(* Dates, categories and records *)

\* a date text: the strptime format it is written in ("text" when in none
\* of the four) and the year, month and day it spells
DateText(fmt, y, mo, d) == [fmt |-> fmt, y |-> y, mo |-> mo, d |-> d]
NoDate == <<0, 0, 0>>
fmts == {"%Y-%m-%d", "%Y/%m/%d", "%Y.%m.%d", "%Y%m%d"}

DaysIn(y, mo) ==
    IF mo \in {4, 6, 9, 11} THEN 30
    ELSE IF mo # 2 THEN 31
    ELSE IF y % 4 = 0 /\ (y % 100 # 0 \/ y % 400 = 0) THEN 29 ELSE 28

\* _parse_date: the date a text spells in one of the four formats, or None
parse_date(t) ==
    IF /\ t.fmt \in fmts
       /\ t.y \in 1..9999 /\ t.mo \in 1..12 /\ t.d \in 1..DaysIn(t.y, t.mo)
    THEN <<t.y, t.mo, t.d>>
    ELSE NoDate

\* dt.strftime("%Y-%m-%d") and dt.strftime("%Y-%m")
IsoDate(dt) == DateText("%Y-%m-%d", dt[1], dt[2], dt[3])
MonthKey(dt) == <<dt[1], dt[2]>>
\* the order of the "YYYY-MM" strings (years of four digits)
MonthLt(a, b) == a[1] < b[1] \/ (a[1] = b[1] /\ a[2] < b[2])

\* str.upper on the category texts of the model
Upper(c) ==
    CASE c = "s1" -> "S1" [] c = "s2" -> "S2" [] c = "s3" -> "S3"
      [] c = "other" -> "OTHER" [] c = "food" -> "FOOD" [] OTHER -> c

Categories == {"S1", "S2", "S3", "OTHER"}

Record(date, category, amount) ==
    [date |-> date, category |-> category, amount |-> amount]

----------------------------------------------------------------------------
(* Monthly aggregator *)

ZeroBucket(mon) == [month |-> mon, s1 |-> R0, s2 |-> R0, s3 |-> R0, other |-> R0]

\* line 160-161: buck[month][key] += amt, the bucket made on first use
AddTo(buck, mon, cat, amt) ==
    LET b0 == IF \E i \in 1..Len(buck) : buck[i].month = mon
              THEN buck ELSE Append(buck, ZeroBucket(mon))
        i == CHOOSE j \in 1..Len(b0) : b0[j].month = mon
    IN  [b0 EXCEPT ![i] =
            CASE cat = "S1" -> [@ EXCEPT !.s1 = RAdd(@, amt)]
              [] cat = "S2" -> [@ EXCEPT !.s2 = RAdd(@, amt)]
              [] cat = "S3" -> [@ EXCEPT !.s3 = RAdd(@, amt)]
              [] cat = "OTHER" -> [@ EXCEPT !.other = RAdd(@, amt)]]

\* lines 154-161: the buckets, in the order their months first appear
RECURSIVE bucket_from(_, _, _)
bucket_from(recs, i, buck) ==
    IF i > Len(recs) THEN buck
    ELSE LET r == recs[i]
             dt == parse_date(r.date)
             cat == Upper(r.category)
             amt == nz(r.amount)
         IN  IF dt = NoDate THEN bucket_from(recs, i + 1, buck)
             ELSE IF cat \notin Categories \/ RLe(amt, R0)
                  THEN bucket_from(recs, i + 1, buck)
             ELSE bucket_from(recs, i + 1, AddTo(buck, MonthKey(dt), cat, amt))

\* lines 164-171: the row of one bucket
MonthRow(b, err) ==
    LET total == RAdd(RAdd(RAdd(b.s1, b.s2), b.s3), b.other)
        met == compute_scores(total, b.s1, b.s2, b.s3, NoConfig, NoConfig, err)
    IN  [month |-> b.month, s1 |-> Round(b.s1, 2), s2 |-> Round(b.s2, 2),
         s3 |-> Round(b.s3, 2), other |-> Round(b.other, 2),
         total |-> Round(total, 2), gi |-> met.gi, level |-> met.level]

\* series.sort(key=month) left out
SortByMonth_None(rows) == rows

\* line 172: series.sort(key=lambda x: x["month"]), a stable sort
RECURSIVE SortByMonth(_)
SortByMonth(rows) ==
    IF rows = <<>> THEN <<>>
    ELSE LET i == CHOOSE j \in 1..Len(rows) :
                    /\ \A k \in 1..Len(rows) : ~MonthLt(rows[k].month, rows[j].month)
                    /\ \A k \in 1..(j - 1) : MonthLt(rows[j].month, rows[k].month)
             rest == [k \in 1..(Len(rows) - 1) |->
                         IF k < i THEN rows[k] ELSE rows[k + 1]]
         IN  <<rows[i]>> \o SortByMonth(rest)

aggregate_monthly(recs, err) ==
    LET buck == bucket_from(recs, 1, <<>>)
    IN  SortByMonth([i \in 1..Len(buck) |-> MonthRow(buck[i], err)])

SeqsUpTo(S, n) == UNION {[1..k -> S] : k \in 0..n}

\* the four records of August 2025
Example3 == <<
    Record(DateText("%Y-%m-%d", 2025, 8, 1), "S1", R(380)),
    Record(DateText("%Y-%m-%d", 2025, 8, 8), "S2", R(2200)),
    Record(DateText("%Y-%m-%d", 2025, 8, 15), "S3", R(900)),
    Record(DateText("%Y-%m-%d", 2025, 8, 20), "OTHER", R(600)) >>

\* records in other months, formats and letter cases, and invalid ones
RecInputs ==
    {Example3[1], Example3[2], Example3[4],
     Record(DateText("%Y-%m-%d", 2025, 7, 31), "S1", Rat(1250, 100)),
     Record(DateText("%Y/%m/%d", 2024, 12, 5), "s3", R(4000)),
     Record(DateText("%Y-%m-%d", 2025, 8, 1), "S1", R(-5)),
     Record(DateText("text", 0, 0, 0), "S1", R(100)),
     Record(DateText("%Y-%m-%d", 2025, 2, 30), "S2", R(100)),
     Record(DateText("%Y-%m-%d", 2025, 8, 1), "FOOD", R(100)),
     Record(DateText("%Y-%m-%d", 2025, 9, 1), "S2", R0)}

InitAggregate ==
    /\ receipts \in SeqsUpTo(RecInputs, MaxRecs) \cup {Example3}
    /\ agg = <<>>
    /\ fperr \in {-1, 0, 1}
    /\ req = NoRes /\ loc = NoRes /\ res = NoRes
    /\ pc = "call"
    /\ TierIdle /\ RollIdle /\ ImportIdle /\ SanIdle /\ UiIdle

Aggregate ==
    /\ pc = "call"
    /\ agg' = aggregate_monthly(receipts, fperr)
    /\ pc' = "aggregated"
    /\ UNCHANGED <<receipts, computeVars, tierVars, rollVars, importVars, sanVars, uiVars>>

NextAggregate == Aggregate

SpecAggregate == InitAggregate /\ [][NextAggregate]_vars

----------------------------------------------------------------------------
(* POST /api/upload_csv over the record store receipts.json *)

\* lines 232-233: float(text), -1 when it raises
ParseAmount(x) == IF x = NotNumeric THEN R(-1) ELSE x

\* amt <= 0 on a float that may be nan or infinite
LeZero(x) == IF x[2] = 0 THEN x = NegInf ELSE RLe(x, R0)

\* line 234 without the test of the amount
RowRejected_NoAmount(dt, cat, amt) == dt = NoDate \/ cat \notin Categories

\* line 234: not dt or cat not in {...} or amt <= 0
RowRejected(dt, cat, amt) ==
    dt = NoDate \/ cat \notin Categories \/ LeZero(amt)

\* round(amt, 2) as a float
RoundAmount(x) == IF x[2] = 0 THEN x ELSE Rat(Round(x, 2), 100)

\* lines 227-237: the loop over the rows: the records to add and the counts
RECURSIVE import_rows(_, _, _)
import_rows(rows, i, acc) ==
    IF i > Len(rows) THEN acc
    ELSE LET row == rows[i]
             dt == parse_date(row.date)
             cat == Upper(row.category)
             amt == ParseAmount(row.amount)
         IN  IF RowRejected(dt, cat, amt)
             THEN import_rows(rows, i + 1, [acc EXCEPT !.skipped = @ + 1])
             ELSE import_rows(rows, i + 1,
                      [acc EXCEPT
                          !.new = Append(@, Record(IsoDate(dt), cat, RoundAmount(amt))),
                          !.ok = @ + 1])

\* _load_hist: [] when the file is missing or json.load raises
load_hist == IF fileValid THEN store ELSE <<>>

Procs == {1, 2}

Local(at, csv) ==
    [pc |-> at, csv |-> csv, new |-> <<>>, ok |-> 0, skipped |-> 0,
     recs |-> <<>>, resp |-> NoRes]

\* rows of an uploaded file: valid ones in several formats and letter
\* cases, one below half a cent, one whose amount is nan, and invalid ones
RowInputs ==
    {Record(DateText("%Y/%m/%d", 2025, 8, 8), "s2", R(2200)),
     Record(DateText("%Y%m%d", 2025, 7, 20), "OTHER", Rat(60050, 100)),
     Record(DateText("%Y.%m.%d", 2025, 9, 1), "S3", Rat(4, 1000)),
     Record(DateText("%Y-%m-%d", 2025, 8, 1), "S1", NaN),
     Record(DateText("%Y-%m-%d", 2025, 8, 1), "S1", R(-5)),
     Record(DateText("%Y-%m-%d", 2025, 8, 1), "S1", R0),
     Record(DateText("%Y-%m-%d", 2025, 8, 1), "S1", NotNumeric),
     Record(DateText("text", 0, 0, 0), "S1", R(100)),
     Record(DateText("%Y-%m-%d", 2025, 8, 1), "food", R(100))}

\* the files of two uploads that run at the same time
ConcurrentCsvs ==
    {<<Record(DateText("%Y-%m-%d", 2025, 8, 1), "S1", R(380))>>,
     <<Record(DateText("%Y/%m/%d", 2025, 9, 8), "s2", R(2200)),
       Record(DateText("%Y-%m-%d", 2025, 8, 1), "S1", R(-5))>>}

\* what receipts.json holds before: nothing (no file), or earlier imports
StoreInputs == {<<>>, <<Example3[3], Example3[4]>>}

InitImport ==
    /\ store0 \in StoreInputs
    /\ store = store0
    /\ fileValid = (store0 # <<>>)
    /\ \/ /\ procs = {1}
          /\ \E c \in SeqsUpTo(RowInputs, MaxRows) :
                proc = [p \in Procs |->
                           IF p = 1 THEN Local("start", c) ELSE Local("off", <<>>)]
       \/ /\ procs = Procs
          /\ \E c \in [Procs -> ConcurrentCsvs] :
                proc = [p \in Procs |-> Local("start", c[p])]
    /\ fperr \in {-1, 0, 1}
    /\ req = NoRes /\ loc = NoRes /\ res = NoRes
    /\ pc = "serving"
    /\ TierIdle /\ RollIdle /\ AggIdle /\ SanIdle /\ UiIdle

importRest ==
    <<store0, procs, computeVars, tierVars, rollVars, aggVars, sanVars, uiVars,
      pc>>

\* lines 227-237
ParseRows(p) ==
    /\ proc[p].pc = "start"
    /\ LET r == import_rows(proc[p].csv, 1, [new |-> <<>>, ok |-> 0, skipped |-> 0])
       IN  proc' = [proc EXCEPT ![p].pc = "parsed", ![p].new = r.new,
                                ![p].ok = r.ok, ![p].skipped = r.skipped]
    /\ UNCHANGED <<store, fileValid, importRest>>

\* line 238: recs = _load_hist(); recs.extend(new)
LoadHist(p) ==
    /\ proc[p].pc = "parsed"
    /\ proc' = [proc EXCEPT ![p].pc = "loaded",
                            ![p].recs = load_hist \o proc[p].new]
    /\ UNCHANGED <<store, fileValid, importRest>>

\* _save_hist, line 141: open(HIST_FILE, "w") empties the file
SaveOpen(p) ==
    /\ proc[p].pc = "loaded"
    /\ store' = <<>>
    /\ fileValid' = FALSE
    /\ proc' = [proc EXCEPT ![p].pc = "writing"]
    /\ UNCHANGED importRest

\* what json.dump of request p leaves in the file: its list; but when another
\* request has written the file since p emptied it, p's text lies over the
\* other's, and a shorter text leaves the end of the longer one behind it
WriteOutcomes(p) ==
    IF fileValid /\ Len(proc[p].recs) <= Len(store)
    THEN {TRUE, FALSE} ELSE {TRUE}

\* _save_hist, line 142: json.dump(rows, f) and the close of the file
SaveWrite(p) ==
    /\ proc[p].pc = "writing"
    /\ \E complete \in WriteOutcomes(p) :
          /\ fileValid' = complete
          /\ store' = IF complete THEN proc[p].recs ELSE <<>>
    /\ proc' = [proc EXCEPT ![p].pc = "saved"]
    /\ UNCHANGED importRest

\* lines 239-241
Respond(p) ==
    /\ proc[p].pc = "saved"
    /\ \E ser \in {aggregate_monthly(proc[p].recs, fperr)} :
           proc' = [proc EXCEPT
                       ![p].pc = "done",
                       ![p].resp = [inserted |-> proc[p].ok,
                                    skipped |-> proc[p].skipped,
                                    series |-> ser,
                                    rolling |-> IF ser # <<>> THEN rolling_12m(ser)
                                                ELSE <<>>]]
    /\ UNCHANGED <<store, fileValid, importRest>>

\* api_upload_csv, one request taking its next step
NextImport ==
    \/ \E p \in procs : ParseRows(p)
    \/ \E p \in procs : LoadHist(p)
    \/ \E p \in procs : SaveOpen(p)
    \/ \E p \in procs : SaveWrite(p)
    \/ \E p \in procs : Respond(p)

SpecImport == InitImport /\ [][NextImport]_vars

----------------------------------------------------------------------------
(* Properties of the score model, under SpecCompute *)

Responded == pc = "responded"

\* what the request states, after sanitizing
StatedTotal == nz(req.total)
StatedSpent == RAdd(RAdd(nz(req.s1), nz(req.s2)), nz(req.s3))

CapsPositive ==
    \A k \in {"S1", "S2", "S3"} : req.caps = NoConfig \/ RLt(R0, req.caps[k])
WeightsNonNegative ==
    \A k \in {"S1", "S2", "S3"} :
        req.weights = NoConfig \/ RLe(R0, req.weights[k])

\* C1: for arbitrary amounts and any configuration with positive caps and
\* non-negative weights, the composite GI compute_scores computes (the local
\* gi after line 85, and the rounded gi it returns) lies in [0, 100].
C1_GIInRange ==
    (Responded /\ CapsPositive /\ WeightsNonNegative) =>
        /\ FlGe(loc.gi, R0)
        /\ ~FlGt(loc.gi, R100)
        /\ res.gi \in 0..10000

\* all three categories at their cap and the float sum rounded above 100
C1_Witness ==
    /\ Responded /\ CapsPositive /\ WeightsNonNegative
    /\ loc.sum = R100 /\ fperr = 1
    /\ loc.gi = Exact(R100)
    /\ res.gi = 10000

\* C2: when the sanitized s1+s2+s3 exceeds the sanitized total, the returned
\* other is 0 and inputs.total is s1+s2+s3; otherwise other is
\* total - (s1+s2+s3) and inputs.total is the stated total.
C2_AutoCorrection ==
    Responded =>
        IF RLt(StatedTotal, StatedSpent)
        THEN res.other = 0 /\ res.inputs.total = StatedSpent
        ELSE /\ res.other = Round(RSub(StatedTotal, StatedSpent), 2)
             /\ res.inputs.total = StatedTotal

C2_Witness ==
    /\ Responded
    /\ RLt(StatedTotal, StatedSpent)
    /\ RLt(R0, StatedTotal)
    /\ res.other = 0
    /\ res.inputs.total = StatedSpent

\* updateUI, line 616: const over = (res.spent > res.inputs.total)
over(r) == RLt(r.inputs.total, Rat(r.spent, 100))

\* C3: when the request's s1+s2+s3 exceeds its stated total, the result
\* carries the informational flag of the auto-correction: the test the UI
\* makes on it, res.spent > res.inputs.total, is true.
C3_OverFlagSet ==
    (Responded /\ RLt(StatedTotal, StatedSpent)) => over(res)

\* C4 as stated: compute(5000, 1000, 2000, 500) with the default
\* configuration gives raw scores 25, 28.57, 6.25, a GI of about 32.7 and
\* the Silver tier.
C4_Example1_AsStated ==
    (Responded /\ req = Example1) =>
        /\ res.s_scores = [S1 |-> 2500, S2 |-> 2857, S3 |-> 625]
        /\ res.gi \in 3265..3275
        /\ res.level = "Silver"

\* C4 (amended): compute(5000, 1000, 2000, 500) with the default
\* configuration gives raw scores 25, 28.57, 6.25, a GI of 41.80 and the
\* Gold tier.
C4_Example1 ==
    (Responded /\ req = Example1) =>
        /\ res.s_scores = [S1 |-> 2500, S2 |-> 2857, S3 |-> 625]
        /\ res.gi = 4180
        /\ res.level = "Gold"

C4_Witness ==
    /\ Responded /\ req = Example1
    /\ res.gi = 4180
    /\ res.next_target.target = 60

----------------------------------------------------------------------------
(* Properties of the tier table, under SpecTier *)

LookedUp == pc = "looked up"

InScale(g) == FlGe(g, R0) /\ ~FlGt(g, R100)

\* the index in LEVELS of the highest lower bound that is <= g
BandOf(g) ==
    CHOOSE i \in 1..Len(LEVELS) :
        /\ FlGe(g, R(LEVELS[i][1]))
        /\ \A j \in 1..Len(LEVELS) :
              FlGe(g, R(LEVELS[j][1])) => LEVELS[j][1] <= LEVELS[i][1]

\* the rank of a tier: the lowest lower bound that carries its name
TierRank(name) ==
    CHOOSE b \in {LEVELS[i][1] : i \in 1..Len(LEVELS)} :
        /\ \E i \in 1..Len(LEVELS) : LEVELS[i] = <<b, name>>
        /\ \A i \in 1..Len(LEVELS) : LEVELS[i][2] = name => b <= LEVELS[i][1]

\* C5: grade_from_gi returns a tier for every score, and for a score in
\* [0, 100] the tier of the band with the highest lower bound <= the score
\* among 0, 10, 20, 40, 60, 80 (one tier per band); the tier's rank does not
\* decrease when the score increases.
C5_TierLookup ==
    LookedUp =>
        /\ tierA.level \in {LEVELS[i][2] : i \in 1..Len(LEVELS)}
        /\ tierB.level \in {LEVELS[i][2] : i \in 1..Len(LEVELS)}
        /\ InScale(giA) => tierA.level = LEVELS[BandOf(giA)][2]
        /\ (InScale(giA) /\ InScale(giB) /\ BandOf(giA) = BandOf(giB))
              => tierA = tierB
        /\ (InScale(giA) /\ InScale(giB) /\ FlLe(giA, giB))
              => TierRank(tierA.level) <= TierRank(tierB.level)

\* a score exactly on a lower bound and one just below it
C5_Witness ==
    /\ LookedUp
    /\ giA = [q |-> R(60), e |-> -1] /\ giB = Exact(R(60))
    /\ tierA.level = "Gold" /\ tierB.level = "Platinum"

----------------------------------------------------------------------------
(* Properties of the rolling reporter, under SpecRolling *)

Min(a, b) == IF a < b THEN a ELSE b
Max(a, b) == IF a > b THEN a ELSE b

RECURSIVE SumSeq(_)
SumSeq(q) == IF q = <<>> THEN 0 ELSE Head(q) + SumSeq(Tail(q))

\* the GI values of rows lo..hi of the series
GiOfRows(lo, hi) == [j \in 1..(hi - lo + 1) |-> series[lo + j - 1].gi]

\* C6: after the step that processes the i-th month the window holds exactly
\* min(i, 12) values; it never holds more than 12.
C6_WindowSize ==
    /\ Len(win) <= 12
    /\ Len(win) = Min(Len(out), 12)

\* the window has been full and has evicted
C6_Witness ==
    /\ pc = "done"
    /\ Len(out) = 14
    /\ Len(win) = 12

\* C7: rolling_12m returns one point per input row, in order and with the
\* row's month; the value of the i-th point is the mean of the GI of rows
\* max(1, i-11)..i rounded to 2 decimals, its level the tier of that mean;
\* the running sum is the sum of the values in the window.
C7_RollingMean ==
    /\ sum_gi = SumSeq(win)
    /\ Len(out) <= Len(series)
    /\ pc = "done" => Len(out) = Len(series)
    /\ \A i \in 1..Len(out) :
          LET lo == Max(1, i - 11)
              mean == Rat(SumSeq(GiOfRows(lo, i)), 100 * (i - lo + 1))
          IN  /\ out[i].month = series[i].month
              /\ out[i].gi12m = Round(mean, 2)
              /\ out[i].level12m = grade_from_gi(Exact(mean)).level

\* a series longer than the window whose last mean differs from the mean of
\* all its rows
C7_Witness ==
    /\ pc = "done"
    /\ Len(out) = 14
    /\ out[14].gi12m # Round(Rat(SumSeq(GiOfRows(1, 14)), 1400), 2)
    /\ out[1].gi12m = series[1].gi

----------------------------------------------------------------------------
(* Properties of the aggregator, under SpecAggregate *)

Aggregated == pc = "aggregated"

\* a record the aggregator counts: a date, a known category, an amount > 0
ValidRecord(r) ==
    /\ parse_date(r.date) # NoDate
    /\ Upper(r.category) \in Categories
    /\ r.amount[2] # 0 /\ r.amount[1] > 0

MonthOf(r) == MonthKey(parse_date(r.date))

\* the sum, in hundredths, of the valid records of recs[1..n] of one month
\* and one category
RECURSIVE CatSum(_, _, _, _)
CatSum(recs, n, mon, cat) ==
    IF n = 0 THEN 0
    ELSE CatSum(recs, n - 1, mon, cat)
         + (IF /\ ValidRecord(recs[n])
               /\ MonthOf(recs[n]) = mon
               /\ Upper(recs[n].category) = cat
            THEN Round(recs[n].amount, 2) ELSE 0)

ValidMonths(recs) ==
    {MonthOf(recs[i]) : i \in {j \in 1..Len(recs) : ValidRecord(recs[j])}}

\* C8: aggregate_monthly returns one row per month that has a valid
\* record, in strictly ascending month order; a row's s1, s2, s3 and other
\* are the sums of the month's valid records of that category and its total
\* is their sum; the four records of August 2025 give the one row
\* 2025-08: s1=380, s2=2200, s3=900, other=600, total=4080.
C8_MonthlyRows ==
    Aggregated =>
        /\ Len(agg) = Cardinality(ValidMonths(receipts))
        /\ {agg[i].month : i \in 1..Len(agg)} = ValidMonths(receipts)
        /\ \A i \in 1..Len(agg) : \A j \in 1..Len(agg) :
              i < j => MonthLt(agg[i].month, agg[j].month)
        /\ \A i \in 1..Len(agg) :
              LET row == agg[i]
                  n == Len(receipts)
              IN  /\ row.s1 = CatSum(receipts, n, row.month, "S1")
                  /\ row.s2 = CatSum(receipts, n, row.month, "S2")
                  /\ row.s3 = CatSum(receipts, n, row.month, "S3")
                  /\ row.other = CatSum(receipts, n, row.month, "OTHER")
                  /\ row.total = row.s1 + row.s2 + row.s3 + row.other
        /\ receipts = Example3 =>
              /\ Len(agg) = 1
              /\ agg[1].month = <<2025, 8>>
              /\ agg[1].s1 = 38000 /\ agg[1].s2 = 220000 /\ agg[1].s3 = 90000
              /\ agg[1].other = 60000 /\ agg[1].total = 408000

\* records of three months given latest first, one of them invalid
C8_Witness ==
    /\ Aggregated
    /\ Len(receipts) = 3
    /\ Len(agg) = 2
    /\ ~ValidRecord(receipts[2])
    /\ MonthLt(MonthOf(receipts[3]), MonthOf(receipts[1]))
    /\ agg[1].month = <<2024, 12>> /\ agg[2].month = <<2025, 8>>

----------------------------------------------------------------------------
(* Properties of the import, under SpecImport *)

\* a row the import must reject: no date, an unknown category, an amount
\* that is not a number or not positive
BadRow(row) ==
    \/ parse_date(row.date) = NoDate
    \/ Upper(row.category) \notin Categories
    \/ row.amount = NotNumeric
    \/ (row.amount[2] # 0 /\ row.amount[1] <= 0)

GoodRow(row) == ~BadRow(row)

Range(q) == {q[i] : i \in 1..Len(q)}

\* the records the requests may add
Imported == UNION {Range(proc[p].new) : p \in procs}

\* the amounts, in hundredths, of the records the aggregator counts
RECURSIVE CountedSum(_)
CountedSum(recs) ==
    IF recs = <<>> THEN 0
    ELSE (IF Head(recs).amount[2] # 0 /\ Head(recs).amount[1] > 0
          THEN Round(Head(recs).amount, 2) ELSE 0)
         + CountedSum(Tail(recs))

RECURSIVE TotalOf(_)
TotalOf(rows) == IF rows = <<>> THEN 0 ELSE Head(rows).total + TotalOf(Tail(rows))

\* C9: a row with an unparseable date, an unrecognized category or a
\* non-positive (or non-numeric) amount is counted as skipped, is not among
\* the records appended to the store and adds to no monthly aggregate; the
\* accepted and rejected counts add up to the number of rows.
C9_RejectedRows ==
    \A p \in procs :
        LET P == proc[p]
            good == SelectSeq(P.csv, GoodRow)
            at == P.pc
        IN  /\ at \in {"parsed", "loaded", "writing", "saved", "done"} =>
                /\ P.ok + P.skipped = Len(P.csv)
                /\ P.skipped = Len(P.csv) - Len(good)
                /\ Len(P.new) = Len(good)
                /\ \A j \in 1..Len(good) :
                      /\ P.new[j].date = IsoDate(parse_date(good[j].date))
                      /\ P.new[j].category = Upper(good[j].category)
                      /\ P.new[j].amount = RoundAmount(good[j].amount)
            /\ at \in {"loaded", "writing", "saved", "done"} =>
                /\ Len(P.recs) >= Len(P.new)
                /\ SubSeq(P.recs, Len(P.recs) - Len(P.new) + 1, Len(P.recs)) = P.new
                /\ Range(P.recs) \subseteq (Range(store0) \cup Imported)
            /\ Range(store) \subseteq (Range(store0) \cup Imported)
            /\ at = "done" =>
                /\ P.resp.inserted = Len(good)
                /\ P.resp.skipped = Len(P.csv) - Len(good)
                /\ TotalOf(P.resp.series) = CountedSum(P.recs)

\* an upload of a valid row and the row of amount -5, answered
C9_Witness ==
    /\ procs = {1}
    /\ proc[1].pc = "done"
    /\ Len(proc[1].csv) = 2
    /\ proc[1].csv[2].amount = R(-5)
    /\ proc[1].resp.inserted = 1 /\ proc[1].resp.skipped = 1
    /\ store = store0 \o proc[1].new
    /\ store0 # <<>>

AllDone == procs # {} /\ \A p \in procs : proc[p].pc = "done"

IsPrefix(a, b) == Len(a) <= Len(b) /\ SubSeq(b, 1, Len(a)) = a

\* the records of all the requests, appended in one order or the other
Appended ==
    IF procs = {1} THEN {proc[1].new}
    ELSE {proc[1].new \o proc[2].new, proc[2].new \o proc[1].new}

\* C10: the record store is append-only: once the import requests are
\* answered, whether they ran one after the other or interleaved, the store
\* holds the records it held before them, unchanged and in order, followed
\* by the accepted records of each import.
C10_AppendOnly ==
    AllDone =>
        /\ IsPrefix(store0, store)
        /\ \E a \in Appended : store = store0 \o a

----------------------------------------------------------------------------
(* The page's target back-solver: backsolve(), lines 788-810 *)

Keys == <<"S1", "S2", "S3">>
Field(k) == CASE k = "S1" -> "s1" [] k = "S2" -> "s2" [] k = "S3" -> "s3"

\* line 795: the amount added per iteration; line 796: the iteration guard
Step == 100
GuardLimit == 2000

\* the options of the goalTier select, lines 370-373
Targets == {40, 60, 80, 100}

Form(total, s1, s2, s3) == [total |-> total, s1 |-> s1, s2 |-> s2, s3 |-> s3]
Adv(caps, weights) == [caps |-> caps, weights |-> weights]

DefaultAdv == Adv(DefaultCaps, DefaultWeights)
\* weights typed as negative numbers: _nz makes each of them 0
NoWeightAdv == Adv(DefaultCaps, [S1 |-> R(-1), S2 |-> R(-1), S3 |-> R(-1)])
\* a first category that never counts
NoS1Adv == Adv(DefaultCaps, [S1 |-> R(-1), S2 |-> Rat(1, 2), S3 |-> Rat(1, 2)])
\* a first cap far beyond what 2000 steps of 100 can fill
WideCapAdv == Adv([S1 |-> R(100000), S2 |-> R(70), S3 |-> R(80)], DefaultWeights)

FormOfExample1 == Form(R(5000), R(1000), R(2000), R(500))

FormInputs ==
    {Form(R0, a, b, c) :
        a \in {R(-AmtStep), R0, R(AmtStep)},
        b \in {R0, R(AmtStep)}, c \in {R0, R(AmtStep)}}
    \cup {FormOfExample1}

\* fetch("/api/compute", {...i, caps, weights}) as the page sees it
Fetch(i, adv, err) ==
    compute_scores(i.total, i.s1, i.s2, i.s3, adv.caps, adv.weights, err)

\* Cand that finds no entry
Cand_Never(sugg) == "none"

\* Cand that takes the first entry that is not null, without sorting
Cand_FirstOpen(sugg) ==
    LET idx == {i \in 1..3 : sugg[Keys[i]] # NoSuggestion}
    IN  IF idx = {} THEN "none"
        ELSE Keys[CHOOSE i \in idx : \A j \in idx : i <= j]

\* line 801: the entries with a non-null suggestion, sorted by suggestion
\* (a stable sort), first one; "none" when there is no such entry
Cand(sugg) ==
    LET idx == {i \in 1..3 : sugg[Keys[i]] # NoSuggestion}
    IN  IF idx = {} THEN "none"
        ELSE Keys[CHOOSE i \in idx : \A j \in idx :
                    \/ sugg[Keys[i]] < sugg[Keys[j]]
                    \/ (sugg[Keys[i]] = sugg[Keys[j]] /\ i <= j)]

\* line 804: s[field] += step; s.total += step
AddStep(s, key) ==
    [s EXCEPT ![Field(key)] = RAdd(@, R(Step)), !.total = RAdd(@, R(Step))]

InitBacksolve ==
    /\ \/ \E f \in FormInputs, a \in {DefaultAdv, NoWeightAdv, NoS1Adv},
             t \in Targets :
             /\ bs = [form |-> f, adv |-> a, target |-> t, s |-> NoRes, gi |-> 0,
                      guard |-> 0, cur |-> NoRes, key |-> "none",
                      before |-> NoRes, hint |-> "idle"]
             /\ fperr \in {-1, 0, 1}
       \/ \E t \in Targets :
             /\ bs = [form |-> FormOfExample1, adv |-> WideCapAdv, target |-> t,
                      s |-> NoRes, gi |-> 0, guard |-> 0, cur |-> NoRes,
                      key |-> "none", before |-> NoRes, hint |-> "idle"]
             /\ fperr = 0
    /\ req = NoRes /\ loc = NoRes /\ res = NoRes
    /\ quick = NoRes /\ StackIdle
    /\ pc = "clicked"
    /\ TierIdle /\ RollIdle /\ AggIdle /\ ImportIdle /\ SanIdle

backRest ==
    <<req, fperr, loc, res, quick, stackVars, tierVars, rollVars, aggVars,
      importVars, sanVars>>

\* lines 789-794: the base computation; nothing to do when it is at the target
BacksolveStart ==
    /\ pc = "clicked"
    /\ \E base \in {Fetch(bs.form, bs.adv, fperr)} :
          IF base.gi >= bs.target * 100
          THEN /\ bs' = [bs EXCEPT !.gi = base.gi, !.hint = "reached"]
               /\ pc' = "returned"
          ELSE /\ bs' = [bs EXCEPT !.s = base.inputs, !.gi = base.gi]
               /\ pc' = "loop"
    /\ UNCHANGED backRest

\* lines 796-807: one iteration that finds a category to raise
BacksolveIter ==
    /\ pc = "loop"
    /\ bs.guard < GuardLimit /\ bs.gi < bs.target * 100
    /\ \E cur \in {Fetch(bs.s, bs.adv, fperr)} :
          /\ Cand(cur.suggestions) # "none"
          /\ \E s2 \in {AddStep(bs.s, Cand(cur.suggestions))} :
                bs' = [bs EXCEPT
                          !.cur = cur.suggestions,
                          !.key = Cand(cur.suggestions),
                          !.before = bs.s,
                          !.s = s2,
                          !.gi = Fetch(s2, bs.adv, fperr).gi,
                          !.guard = @ + 1,
                          !.hint = IF bs.guard % 5 = 0 THEN "computing" ELSE @]
    /\ pc' = "loop"
    /\ UNCHANGED backRest

\* lines 796, 802 and 809: the loop ends on its condition or on the break,
\* the form takes the amounts found and the hint says the work is done
BacksolveFinish ==
    /\ pc = "loop"
    /\ \/ ~(bs.guard < GuardLimit /\ bs.gi < bs.target * 100)
       \/ Cand(Fetch(bs.s, bs.adv, fperr).suggestions) = "none"
    /\ bs' = [bs EXCEPT !.form = bs.s, !.hint = "done"]
    /\ pc' = "returned"
    /\ UNCHANGED backRest

NextBacksolve == BacksolveStart \/ BacksolveIter \/ BacksolveFinish

SpecBacksolve == InitBacksolve /\ [][NextBacksolve]_vars

----------------------------------------------------------------------------
(* Properties of the back-solver, under SpecBacksolve *)

Returned == pc = "returned"

\* no category of the amounts reached has a suggestion: all are capped
AllCapped ==
    /\ bs.s # NoRes
    /\ \A i \in 1..3 :
          Fetch(bs.s, bs.adv, fperr).suggestions[Keys[i]] = NoSuggestion

DefaultsTo40 == bs.adv = DefaultAdv /\ bs.target = 40

\* C11: backsolve runs at most 2000 iterations, each of which advances
\* the guard by one; with the default caps and weights and target 40, when
\* it has returned the achieved GI is at least 40 unless no category has a
\* suggestion left.
C11_BacksolveTerminates ==
    /\ [](bs.guard <= GuardLimit)
    /\ [][pc = "loop" =>
            \/ pc' = "returned"
            \/ (pc' = "loop" /\ bs'.guard = bs.guard + 1)]_vars
    /\ [](DefaultsTo40 /\ Returned => (bs.gi >= 4000 \/ AllCapped))

\* a run from a GI below 40 that needed several iterations
C11_Witness ==
    /\ DefaultsTo40 /\ Returned
    /\ bs.hint = "done" /\ bs.guard > 5
    /\ bs.gi >= 4000
    /\ bs.form = bs.s /\ bs.form.total = RAdd(R(AmtStep), R(bs.guard * Step))

\* the hint texts backsolve writes when the target is reached: line 791
\* ("reached") and line 809 ("done")
HintsOfSuccess == {"reached", "done"}

\* C12: when backsolve returns with the achieved GI still below the target
\* (no category left to raise, or the guard exhausted), what it shows is an
\* explicit "target not reached" signal, different from what it shows when
\* the target is reached.
C12_NotReachedSignalled ==
    (Returned /\ bs.gi < bs.target * 100) => bs.hint \notin HintsOfSuccess

----------------------------------------------------------------------------
(* The sanitizer: _nz, lines 12-17 *)

\* what _nz may be given: finite numbers, nan, the infinities, and values
\* float() raises on (None, a text that is no number, a list)
RawInputs ==
    {Rat(k, 4) : k \in -MaxRawK..MaxRawK} \cup {NotNumeric, NaN, PosInf, NegInf}

InitSanitize ==
    /\ \E x \in RawInputs : san = [x |-> x, v |-> NoRes]
    /\ pc = "call"
    /\ ComputeIdle /\ TierIdle /\ RollIdle /\ AggIdle /\ ImportIdle /\ UiIdle

Sanitize ==
    /\ pc = "call"
    /\ san' = [san EXCEPT !.v = nz(san.x)]
    /\ pc' = "returned"
    /\ UNCHANGED <<computeVars, tierVars, rollVars, aggVars, importVars, uiVars>>

NextSanitize == Sanitize

SpecSanitize == InitSanitize /\ [][NextSanitize]_vars

----------------------------------------------------------------------------
(* Properties of the sanitizer, under SpecSanitize *)

Finite(x) == x[2] > 0

\* C13: _nz returns for every argument: 0.0 for a non-numeric, non-finite
\* or negative one, the argument itself for a finite number >= 0; what it
\* returns is always a finite number >= 0.
C13_SanitizeTotal ==
    /\ pc = "call" => ENABLED Sanitize
    /\ pc = "returned" =>
          /\ Finite(san.v) /\ RLe(R0, san.v)
          /\ (~Finite(san.x) \/ RLt(san.x, R0)) => san.v = R0
          /\ (Finite(san.x) /\ RLe(R0, san.x)) => san.v = san.x

\* an infinite argument, sanitized
C13_Witness == pc = "returned" /\ san.x = PosInf /\ san.v = R0

----------------------------------------------------------------------------
(* Properties of the score model in its degenerate cases, under SpecCompute *)

\* the weights of the request sanitize to 0, 0, 0
AllWeightsZero ==
    /\ req.weights # NoConfig
    /\ \A i \in 1..3 : nz(req.weights[Keys[i]]) = R0

NoAmounts ==
    /\ nz(req.total) = R0 /\ nz(req.s1) = R0
    /\ nz(req.s2) = R0 /\ nz(req.s3) = R0

\* C14: compute_scores returns a result in the degenerate cases: with all
\* weights zero the weights stay 0 (the sum is replaced by 1) and GI is 0;
\* with a cap of 0 the category's normalized score and slope are 0; with no
\* amounts at all the percentages are taken of 1 and are all 0.
C14_DegenerateCases ==
    Responded =>
        /\ res.gi \in 0..10000
        /\ AllWeightsZero =>
              /\ \A i \in 1..3 : loc.w[Keys[i]] = R0
              /\ loc.sum = R0 /\ res.gi = 0
        /\ \A i \in 1..3 :
              loc.caps[Keys[i]] = R0 =>
                  /\ loc.norm[Keys[i]] = R0 /\ res.s_norms[Keys[i]] = 0
                  /\ loc.slopes[Keys[i]] = R0
                  /\ res.suggestions[Keys[i]] = NoSuggestion
        /\ NoAmounts =>
              /\ loc.a.denom = R(1)
              /\ \A j \in 1..4 : res.percents[j] = 0

\* all weights zero and a cap of 0, with money spent in every category
C14_Witness ==
    /\ Responded
    /\ AllWeightsZero
    /\ loc.caps.S1 = R0
    /\ RLt(R0, loc.a.s1) /\ RLt(R0, loc.a.s2) /\ RLt(R0, loc.a.s3)
    /\ res.gi = 0

----------------------------------------------------------------------------
(* Properties of the two lowest bands of the tier table, under SpecTier *)

InBand0(g) == FlGe(g, R0) /\ FlLt(g, R(10))
InBand10(g) == FlGe(g, R(10)) /\ FlLt(g, R(20))

\* C15 as stated: a score in [0,10) and a score in [10,20) get the same
\* tier name and identical benefits: the same level, cashback, loan_cut and
\* extra_rights.
C15_LowBandsIdentical ==
    (LookedUp /\ InBand0(giA) /\ InBand10(giB)) => tierA = tierB

\* C15: a score in [0,10) and a score in [10,20) get the same level,
\* cashback and loan_cut; their extra_rights differ: the basic query service
\* below 10, the monthly report from 10 on.
C15_LowBands ==
    (LookedUp /\ InBand0(giA) /\ InBand10(giB)) =>
        /\ tierA.level = tierB.level
        /\ tierA.cashback = tierB.cashback
        /\ tierA.loan_cut = tierB.loan_cut
        /\ tierA.extra_rights = "basic carbon footprint query"
        /\ tierB.extra_rights = "monthly carbon footprint report"

\* the scores 7.5 and 10 looked up
C15_Witness ==
    /\ LookedUp
    /\ giA = Exact(Rat(15, 2)) /\ giB = Exact(R(10))
    /\ tierA.level = "Bronze" /\ tierB.level = "Bronze"
    /\ tierA.extra_rights # tierB.extra_rights

----------------------------------------------------------------------------
(* Properties of one iteration of the back-solver, under SpecBacksolve *)

\* the suggestions at the amounts the last iteration started from
SuggestedBefore == Fetch(bs.before, bs.adv, fperr).suggestions

\* C16: the category an iteration raises has a suggestion, and no category
\* with a suggestion has a smaller one; the iteration adds exactly 100 to
\* that category and to total and leaves the other two amounts as they were.
C16_GreedyStep ==
    (pc \in {"loop", "returned"} /\ bs.guard > 0) =>
        /\ bs.cur = SuggestedBefore
        /\ bs.key \in {"S1", "S2", "S3"}
        /\ SuggestedBefore[bs.key] # NoSuggestion
        /\ \A i \in 1..3 :
              SuggestedBefore[Keys[i]] # NoSuggestion =>
                  SuggestedBefore[bs.key] <= SuggestedBefore[Keys[i]]
        /\ bs.s[Field(bs.key)] = RAdd(bs.before[Field(bs.key)], R(100))
        /\ bs.s.total = RAdd(bs.before.total, R(100))
        /\ \A i \in 1..3 :
              Keys[i] # bs.key => bs.s[Field(Keys[i])] = bs.before[Field(Keys[i])]

\* an iteration that raised the second category while the first, not yet
\* capped, had the larger suggestion
C16_Witness ==
    /\ pc = "loop" /\ bs.guard > 0
    /\ bs.key = "S2"
    /\ bs.cur["S1"] # NoSuggestion /\ bs.cur["S1"] > bs.cur["S2"]
    /\ bs.cur["S3"] # NoSuggestion
    /\ bs.s.s2 = RAdd(bs.before.s2, R(100))

----------------------------------------------------------------------------
(* Properties of the next threshold, under SpecCompute *)

ThresholdsAbove(g) ==
    {thresholds[i] : i \in {j \in 1..Len(thresholds) : FlLt(g, R(thresholds[j]))}}

\* |delta - (t - g)| <= 0.005 for a delta in hundredths: delta is t - g but
\* for its rounding to 2 decimals
IsGap(delta, t, g) ==
    LET d == RSub(Rat(delta, 100), RSub(R(t), g.q))
    IN  RLe(Rat(-5, 1000), d) /\ RLe(d, Rat(5, 1000))

\* C17: for a GI below 100 the target is the first threshold strictly
\* greater than the GI and the gap is target - GI, which is > 0; for a GI of
\* 100 the target is 100 and the gap 0.  (Stated of the results whose
\* weighted sum carries no rounding error.)
C17_NextThreshold ==
    (Responded /\ fperr = 0) =>
        IF FlLt(loc.gi, R100)
        THEN /\ res.next_target.target \in ThresholdsAbove(loc.gi)
             /\ \A t \in ThresholdsAbove(loc.gi) : res.next_target.target <= t
             /\ IsGap(res.next_target.delta, res.next_target.target, loc.gi)
             /\ res.next_target.delta > 0
        ELSE res.next_target.target = 100 /\ res.next_target.delta = 0

----------------------------------------------------------------------------
(* Properties of the slopes and suggestions, under SpecCompute *)

DivOf(k) == CASE k = "S1" -> 4000 [] k = "S2" -> 7000 [] k = "S3" -> 8000

\* n is x rounded to the nearest whole unit
Nearest(n, x) ==
    LET d == RSub(R(n), x) IN RLe(Rat(-1, 2), d) /\ RLe(d, Rat(1, 2))

\* C18: for each category, a raw score below the cap gives the slope
\* weight * (100/cap) * (100/divisor), and a suggestion of gap/slope rounded
\* to the nearest whole unit when that slope is not 0; a raw score at the cap
\* gives the slope 0; the suggestion is none exactly when the slope is 0.
C18_SlopesAndSuggestions ==
    Responded =>
        \A i \in 1..3 :
            LET k == Keys[i]
                raw == loc.score[k]
                cap == loc.caps[k]
                m == loc.slopes[k]
                gap == Rat(res.next_target.delta, 100)
            IN  /\ RLt(raw, cap) =>
                      m = RMul(loc.w[k],
                               RMul(RDiv(R100, cap), RDiv(R100, R(DivOf(k)))))
                /\ ~RLt(raw, cap) => m = R0
                /\ m # R0 =>
                      /\ res.suggestions[k] # NoSuggestion
                      /\ Nearest(res.suggestions[k], RDiv(gap, m))
                /\ (res.suggestions[k] = NoSuggestion) <=> (m = R0)

\* a first category at its cap and a second one below it
C18_Witness ==
    /\ Responded
    /\ loc.score.S1 = loc.caps.S1 /\ RLt(R0, loc.caps.S1)
    /\ RLt(loc.score.S2, loc.caps.S2) /\ RLt(R0, loc.w.S2)
    /\ res.suggestions.S1 = NoSuggestion
    /\ res.suggestions.S2 > 0

----------------------------------------------------------------------------
(* The page's quick-suggestion buttons: recompute and updateUI, lines 603-641 *)

\* forms filled with amounts that are not negative
QuickForms == {f \in FormInputs : RLe(R0, f.s1)}

InitQuick ==
    /\ \E f \in QuickForms, a \in {DefaultAdv, NoS1Adv} :
          quick = [form |-> f, adv |-> a, res |-> NoRes, target |-> 0,
                   key |-> "none", v |-> 0, clicks |-> 0]
    /\ fperr \in {-1, 0, 1}
    /\ req = NoRes /\ loc = NoRes /\ res = NoRes
    /\ bs = NoRes /\ StackIdle
    /\ pc = "recompute"
    /\ TierIdle /\ RollIdle /\ AggIdle /\ ImportIdle /\ SanIdle

quickRest ==
    <<req, fperr, loc, res, bs, stackVars, tierVars, rollVars, aggVars,
      importVars, sanVars>>

\* lines 603-609: recompute() fetches the result of the form's values and
\* updateUI shows it, with one button per suggestion v that is > 0
Recompute ==
    /\ pc = "recompute"
    /\ quick' = [quick EXCEPT !.res = Fetch(quick.form, quick.adv, fperr)]
    /\ pc' = "shown"
    /\ UNCHANGED quickRest

\* line 638: the button of category k adds v to the category and to total
QuickClick(k) ==
    /\ pc = "shown"
    /\ quick.clicks < MaxClicks
    /\ quick.res.suggestions[k] > 0
    /\ \E v \in {quick.res.suggestions[k]} :
          quick' = [quick EXCEPT
                       !.form = [@ EXCEPT ![Field(k)] = RAdd(@, R(v)),
                                          !.total = RAdd(@, R(v))],
                       !.target = quick.res.next_target.target,
                       !.key = k,
                       !.v = v,
                       !.clicks = @ + 1]
    /\ pc' = "recompute"
    /\ UNCHANGED quickRest

NextQuick ==
    \/ Recompute
    \/ \E k \in {"S1", "S2", "S3"} : QuickClick(k)

SpecQuick == InitQuick /\ [][NextQuick]_vars

----------------------------------------------------------------------------
(* Properties of the quick-suggestion buttons, under SpecQuick *)

\* C19: after a quick-suggestion button has added its v to a category and
\* to total, the recomputed GI is at least the target the button was shown
\* for.  (Stated of the results whose weighted sum carries no rounding error.)
C19_QuickReachesTarget ==
    (pc = "shown" /\ quick.clicks > 0 /\ fperr = 0) =>
        quick.res.gi >= quick.target * 100

----------------------------------------------------------------------------
(* Agreement of the reported tier and the reported score, under SpecCompute *)

\* C20: the level of a compute_scores result is the level grade_from_gi
\* gives for the returned gi, the score rounded to 2 decimals.  (Stated of
\* the results whose weighted sum carries no rounding error.)
C20_LevelOfReturnedGI ==
    (Responded /\ fperr = 0) =>
        res.level = grade_from_gi(Exact(Rat(res.gi, 100))).level

----------------------------------------------------------------------------
(* The page's undo and redo stacks: lines 575, 595-600, 813-815, 850-851 *)

STACK_MAX == 20

\* the text of a number input: <<>> when it is empty or no number, <<n>>
\* when it spells the number n
Blank == <<>>
Typed(n) == <<n>>

\* line 595, getInputs: +value || 0 of each input
getInputs(f) ==
    [k \in {"total", "s1", "s2", "s3"} |-> IF f[k] = Blank THEN 0 ELSE f[k][1]]

\* line 596, setInputs: each input takes the number's text
setInputs(i) == [k \in {"total", "s1", "s2", "s3"} |-> Typed(i[k])]

\* the values the page starts with (lines 331-343) and Reset sets (line 815)
InitialInputs == [total |-> 5000, s1 |-> 1000, s2 |-> 2000, s3 |-> 500]

\* pushUndo that keeps every entry
pushUndo_NoShift(stack, cur) == Append(stack, cur)

\* line 600, the undo stack after pushUndo: the inputs are pushed and the
\* oldest entry dropped when there are more than STACK_MAX
pushUndo(stack, cur) ==
    LET pushed == Append(stack, cur)
    IN  IF Len(pushed) > STACK_MAX THEN Tail(pushed) ELSE pushed

\* the inputs as getInputs reads them, and the two stacks
Snapshot ==
    [inputs |-> getInputs(fields), undo |-> undoStack, redo |-> redoStack]

Logged(kind) ==
    trail' = [last |-> kind, before |-> Snapshot,
              last2 |-> trail.last, before2 |-> trail.before,
              steps |-> trail.steps + 1]

\* the inputs after the total has been typed as 1, 2 .. n
TypedTotal(n) == [InitialInputs EXCEPT !.total = n]

\* the page after n input events on total, each of which ran pushUndo
InitStacks ==
    /\ \E n \in 0..STACK_MAX :
          /\ undoStack = [i \in 1..n |-> TypedTotal(i)]
          /\ fields = setInputs(IF n = 0 THEN InitialInputs ELSE TypedTotal(n))
    /\ redoStack = <<>>
    /\ trail = [last |-> "none", before |-> NoRes, last2 |-> "none",
                before2 |-> NoRes, steps |-> 0]
    /\ quick = NoRes /\ bs = NoRes
    /\ pc = "page"
    /\ ComputeIdle /\ TierIdle /\ RollIdle /\ AggIdle /\ ImportIdle /\ SanIdle

stackRest ==
    <<computeVars, tierVars, rollVars, aggVars, importVars, sanVars, quick, bs,
      pc>>

\* line 813, the Calc button: pushUndo
Calc ==
    /\ trail.steps < MaxSteps
    /\ undoStack' = pushUndo(undoStack, getInputs(fields))
    /\ redoStack' = <<>>
    /\ Logged("push")
    /\ UNCHANGED <<fields, stackRest>>

\* line 814, an input event on total: the input has its new text when
\* pushUndo reads it
EditTotal(text) ==
    /\ trail.steps < MaxSteps
    /\ fields' = [fields EXCEPT !.total = text]
    /\ undoStack' = pushUndo(undoStack, getInputs(fields'))
    /\ redoStack' = <<>>
    /\ Logged("push")
    /\ UNCHANGED stackRest

\* line 815, the Reset button: pushUndo, then the initial values
Reset ==
    /\ trail.steps < MaxSteps
    /\ undoStack' = pushUndo(undoStack, getInputs(fields))
    /\ redoStack' = <<>>
    /\ fields' = setInputs(InitialInputs)
    /\ Logged("push")
    /\ UNCHANGED stackRest

\* line 850, the Undo button
Undo ==
    /\ trail.steps < MaxSteps
    /\ IF undoStack = <<>>
       THEN UNCHANGED <<fields, undoStack, redoStack>>
       ELSE /\ redoStack' = Append(redoStack, getInputs(fields))
            /\ undoStack' = SubSeq(undoStack, 1, Len(undoStack) - 1)
            /\ fields' = setInputs(undoStack[Len(undoStack)])
    /\ Logged("undo")
    /\ UNCHANGED stackRest

\* line 851, the Redo button
Redo ==
    /\ trail.steps < MaxSteps
    /\ IF redoStack = <<>>
       THEN UNCHANGED <<fields, undoStack, redoStack>>
       ELSE /\ undoStack' = Append(undoStack, getInputs(fields))
            /\ redoStack' = SubSeq(redoStack, 1, Len(redoStack) - 1)
            /\ fields' = setInputs(redoStack[Len(redoStack)])
    /\ Logged("redo")
    /\ UNCHANGED stackRest

NextStacks ==
    \/ Calc
    \/ \E text \in {Blank, Typed(7000)} : EditTotal(text)
    \/ Reset
    \/ Undo
    \/ Redo

SpecStacks == InitStacks /\ [][NextStacks]_vars

----------------------------------------------------------------------------
(* Properties of the undo and redo stacks, under SpecStacks *)

StacksBounded ==
    /\ Len(undoStack) <= 20
    /\ Len(undoStack) + Len(redoStack) <= 20

PushClearsRedo == trail.last = "push" => redoStack = <<>>

\* an Undo click that found the undo stack empty, a Redo click that found
\* the redo stack empty: nothing has changed
EmptyClicksChangeNothing ==
    /\ (trail.last = "undo" /\ trail.before.undo = <<>>) =>
          Snapshot = trail.before
    /\ (trail.last = "redo" /\ trail.before.redo = <<>>) =>
          Snapshot = trail.before

\* C21 as stated: the undo stack holds at most 20 entries and the two
\* stacks together at most 20; pushUndo leaves the redo stack empty; undo and
\* redo on an empty stack change nothing; an undo immediately followed by a
\* redo restores the inputs and both stacks to what they were before the undo.
C21_UndoRedo_AsStated ==
    /\ StacksBounded
    /\ PushClearsRedo
    /\ EmptyClicksChangeNothing
    /\ (trail.last2 = "undo" /\ trail.last = "redo") =>
          Snapshot = trail.before2

\* C21: as above, where the undo that a redo follows is one that found the
\* undo stack not empty.
C21_UndoRedo ==
    /\ StacksBounded
    /\ PushClearsRedo
    /\ EmptyClicksChangeNothing
    /\ (/\ trail.last2 = "undo" /\ trail.before2.undo # <<>>
        /\ trail.last = "redo") =>
          Snapshot = trail.before2

\* a push on a full undo stack, then an undo and a redo
C21_Witness ==
    /\ trail.last2 = "undo" /\ trail.last = "redo"
    /\ Len(trail.before2.undo) = 20
    /\ trail.before2.undo[1] = TypedTotal(2)
    /\ Snapshot = trail.before2
    /\ trail.steps = 3

====
